---- MODULE Spec2Model ----
(***************************************************************************)
(* Model of internal-acme-dns (src/src/internal-acme-dns/__main__.py): an   *)
(* authoritative DNS responder for ACME DNS-01 challenges whose TXT records *)
(* are set and removed through an HTTP control API.                         *)
(*                                                                          *)
(* Text is modelled as a sequence of characters (one-character strings),    *)
(* so that splitting, lower-casing, trailing dots and glob matching are     *)
(* computed the way the code computes them.                                 *)
(***************************************************************************)
EXTENDS Integers, Sequences, FiniteSets, TLC

VARIABLES validations, last, pc, pending

vars == <<validations, last, pc, pending>>

(***************************************************************************)
(* Text helpers: str.split, str.rstrip, str.lower, str.join                 *)
(***************************************************************************)

\* str.lower() on one character (the alphabet of the model's names)
LowerChar(ch) ==
    CASE ch = "F" -> "f"
      [] ch = "A" -> "a"
      [] ch = "C" -> "c"
      [] ch = "X" -> "x"
      [] OTHER -> ch

\* str.lower()
Lower(s) == [i \in 1..Len(s) |-> LowerChar(s[i])]

\* str.split(sep): the pieces between the occurrences of sep, empty pieces kept
RECURSIVE SplitAcc(_, _, _)
SplitAcc(s, sep, cur) ==
    IF s = <<>> THEN <<cur>>
    ELSE IF Head(s) = sep THEN <<cur>> \o SplitAcc(Tail(s), sep, <<>>)
    ELSE SplitAcc(Tail(s), sep, Append(cur, Head(s)))

Split(s, sep) == SplitAcc(s, sep, <<>>)

\* str.rstrip("."): every trailing dot removed
RECURSIVE RStripDots(_)
RStripDots(s) ==
    IF s # <<>> /\ s[Len(s)] = "." THEN RStripDots(SubSeq(s, 1, Len(s) - 1))
    ELSE s

\* ".".join(labels)
RECURSIVE JoinDots(_)
JoinDots(labels) ==
    IF labels = <<>> THEN <<>>
    ELSE IF Len(labels) = 1 THEN labels[1]
    ELSE labels[1] \o <<".">> \o JoinDots(Tail(labels))

(***************************************************************************)
(* dnslib.DNSLabel as the resolver uses it                                  *)
(***************************************************************************)

\* DNSLabel(text): the tuple of labels of a textual name; "" and "." give ()
DNSLabel(text) ==
    IF text = <<>> \/ text = <<".">> THEN <<>>
    ELSE Split(RStripDots(text), ".")

\* DNSLabel.__eq__: label by label, ignoring letter case
LabelEq(l1, l2) ==
    [i \in 1..Len(l1) |-> Lower(l1[i])] = [i \in 1..Len(l2) |-> Lower(l2[i])]

\* DNSLabel.matchSuffix(suffix): the last len(suffix) labels equal suffix.
\* self.label[-n:] is the whole tuple when n = 0 or n >= len.
LastLabels(l, n) ==
    IF n = 0 \/ n >= Len(l) THEN l ELSE SubSeq(l, Len(l) - n + 1, Len(l))

\* Variant: the suffix taken on the text of the name, not on whole labels
MatchSuffixChars(l, suffix) ==
    LET q == JoinDots(l)
        z == JoinDots(suffix)
    IN  /\ Len(q) >= Len(z)
        /\ Lower(SubSeq(q, Len(q) - Len(z) + 1, Len(q))) = Lower(z)

matchSuffix(l, suffix) == LabelEq(LastLabels(l, Len(suffix)), suffix)

\* str(DNSLabel): labels joined by dots, plus the trailing dot
LabelStr(l) == JoinDots(l) \o <<".">>

(***************************************************************************)
(* fnmatch.fnmatch(name, pat) on POSIX (normcase is the identity, so the    *)
(* match is case-sensitive): * matches any run of characters, dots          *)
(* included, ? one character, anything else itself.  The patterns of the    *)
(* model use no [seq] classes.                                              *)
(***************************************************************************)
RECURSIVE fnmatch(_, _)
fnmatch(name, pat) ==
    IF pat = <<>> THEN name = <<>>
    ELSE IF Head(pat) = "*"
         THEN fnmatch(name, Tail(pat)) \/ (name # <<>> /\ fnmatch(Tail(name), pat))
    ELSE IF Head(pat) = "?"
         THEN name # <<>> /\ fnmatch(Tail(name), Tail(pat))
    ELSE name # <<>> /\ Head(name) = Head(pat) /\ fnmatch(Tail(name), Tail(pat))

(***************************************************************************)
(* Configuration file (toml.load(config_file)), read on every request.      *)
(* Identifiers, secrets and header tokens are sequences of atoms: a run of  *)
(* characters without a separator is one atom, a separator is an atom.      *)
(***************************************************************************)

\* The names of the model, written out as text
T_fac     == <<"f", ".", "a", ".", "c">>
T_facDot  == <<"f", ".", "a", ".", "c", ".">>
T_FacDot  == <<"F", ".", "a", ".", "c", ".">>
T_ac      == <<"a", ".", "c">>
T_xac     == <<"x", "a", ".", "c">>

\* Glob patterns of the allow-lists
P_sub     == <<"*", ".", "a", ".", "c">>
P_subDot  == <<"*", ".", "a", ".", "c", ".">>
P_any     == <<"*">>

\* api_keys: alice may set names under the zone, written with or without the
\* trailing dot; dave any name; bob has an empty allow-list; carol has none.
api_keys ==
    (<<"alice">> :> [key |-> <<"sA">>, domains |-> <<P_sub, P_subDot>>]) @@
    (<<"dave">>  :> [key |-> <<"sD">>, domains |-> <<P_any>>]) @@
    (<<"bob">>   :> [key |-> <<"sB">>, domains |-> <<>>]) @@
    (<<"carol">> :> [key |-> <<"sC">>])

config ==
    [ domain      |-> T_ac,
      nameserver  |-> "ns.a.c",
      admin_email |-> "admin.a.c",
      api_keys    |-> api_keys ]

\* zone_id = int(now.strftime('%Y%M%d')), fixed at process start
zone_id == 20260705

SoaTime == 3600
AuthTtl == 60
TxtTtl  == 1

(***************************************************************************)
(* ValidationResolver.resolve                                               *)
(***************************************************************************)

RR(rname, rtype, ttl, rdata) ==
    [rname |-> rname, rtype |-> rtype, ttl |-> ttl, rdata |-> rdata]

NsRR ==
    RR(DNSLabel(config.domain), "NS", AuthTtl, [target |-> config.nameserver])

SoaRR ==
    RR(DNSLabel(config.domain), "SOA", AuthTtl,
       [mname |-> config.nameserver, rname |-> config.admin_email,
        times |-> <<zone_id, SoaTime, SoaTime, SoaTime, SoaTime>>])

TxtRR(qname, value) == RR(qname, "TXT", TxtTtl, [txt |-> value])

\* A reply that was built and returned to the server, which sends it
Reply(rcode, answer, auth) ==
    [sent |-> TRUE, rcode |-> rcode, answer |-> answer, auth |-> auth]

\* resolve raised: the socket server logs the exception and sends nothing
NoReply == [sent |-> FALSE, rcode |-> "none", answer |-> <<>>, auth |-> <<>>]

\* Variant: the apex answered without looking at the query type
ApexReplyPlain(qtype) == Reply("NOERROR", <<>>, <<NsRR>>)

\* The zone apex, by query type
ApexReply(qtype) ==
    IF qtype = "SOA" THEN Reply("NOERROR", <<SoaRR>>, <<NsRR>>)
    ELSE IF qtype = "NS" THEN Reply("NOERROR", <<NsRR>>, <<SoaRR>>)
    ELSE Reply("NOERROR", <<>>, <<NsRR>>)

\* any([qname == validation for validation in self.validations])
IsValidation(qname, store) ==
    \E validation \in DOMAIN store : LabelEq(qname, DNSLabel(validation))

\* A challenge name: the SOA record is in the authority section already
ChallengeReply(qname, qtype, store) ==
    IF IsValidation(qname, store)
    THEN IF qtype = "TXT"
         THEN LET key == Lower(LabelStr(qname))
              IN  IF key \in DOMAIN store
                  THEN Reply("NOERROR", <<TxtRR(qname, store[key])>>, <<SoaRR>>)
                  ELSE NoReply   \* KeyError from self.validations[...]
         ELSE Reply("NOERROR", <<>>, <<SoaRR>>)
    ELSE Reply("NXDOMAIN", <<>>, <<SoaRR>>)

resolve(request, store) ==
    LET qname == request.qname
        qtype == request.qtype
    IN  IF ~matchSuffix(qname, DNSLabel(config.domain))
        THEN Reply("NOTZONE", <<>>, <<>>)
        ELSE IF LabelEq(qname, DNSLabel(config.domain))
        THEN ApexReply(qtype)
        ELSE ChallengeReply(qname, qtype, store)

(***************************************************************************)
(* VerificationEndpoints.do_POST                                            *)
(***************************************************************************)

\* http_server.resolver = validations: the resolver is attached at startup
resolverAttached == TRUE

\* send_error(code, explain=...): one error response, status and explanation
SendError(code, explain) ==
    [sent |-> <<[code |-> code, explain |-> explain]>>, raised |-> FALSE]

\* send_response(code): a status line without a body
SendResponse(code) ==
    [sent |-> <<[code |-> code, explain |-> ""]>>, raised |-> FALSE]

\* The handler raised before writing anything: the socket server logs the
\* exception and closes the connection without a response
Raised == [sent |-> <<>>, raised |-> TRUE]

\* base64.b64decode(token).decode() on the tokens of the model:
\* "error" is binascii.Error or UnicodeDecodeError, otherwise the text
b64decode(token) ==
    CASE token = <<"YWxpY2U6c0E=">>     -> [error |-> FALSE, text |-> <<"alice", ":", "sA">>]
      [] token = <<"ZGF2ZTpzRA==">>     -> [error |-> FALSE, text |-> <<"dave", ":", "sD">>]
      [] token = <<"Ym9iOnNC">>         -> [error |-> FALSE, text |-> <<"bob", ":", "sB">>]
      [] token = <<"Y2Fyb2w6c0M=">>     -> [error |-> FALSE, text |-> <<"carol", ":", "sC">>]
      [] token = <<"YWxpY2U6YmFk">>     -> [error |-> FALSE, text |-> <<"alice", ":", "bad">>]
      [] token = <<"bWFsbG9yeTpzQQ==">> -> [error |-> FALSE, text |-> <<"mallory", ":", "sA">>]
      [] token = <<"YWxpY2VzQQ==">>     -> [error |-> FALSE, text |-> <<"alicesA">>]
      [] token = <<"YWxpY2U6c0E6eA==">> -> [error |-> FALSE, text |-> <<"alice", ":", "sA", ":", "x">>]
      [] token = <<"/w==">>             -> [error |-> TRUE, text |-> <<>>]  \* b"\xff": not UTF-8
      [] OTHER                          -> [error |-> TRUE, text |-> <<>>]  \* "abc": incorrect padding

\* Variant: only the lengths of the two secrets are compared
secure_pass_compareLen(a, b) == Len(a) = Len(b)

\* hmac.compare_digest(a.encode(), b.encode())
secure_pass_compare(a, b) == a = b

\* key_config["domains"] if "domains" in key_config else []
AllowedDomains(key_config) ==
    IF "domains" \in DOMAIN key_config THEN key_config.domains ELSE <<>>

\* Variant: all() in place of any()
AnyMatchAll(requested_domain, domains) ==
    \A i \in 1..Len(domains) : fnmatch(requested_domain, domains[i])

\* any([fnmatch.fnmatch(requested_domain, domain) for domain in domains])
AnyMatch(requested_domain, domains) ==
    \E i \in 1..Len(domains) : fnmatch(requested_domain, domains[i])

\* Variant: the record replaces every record of the same DNS name
PresentFolding(store, requested_domain, txt_value) ==
    [k \in {x \in DOMAIN store : ~LabelEq(DNSLabel(x), DNSLabel(requested_domain))}
           \cup {requested_domain} |->
        IF k = requested_domain THEN txt_value ELSE store[k]]

\* self.server.resolver.validations[requested_domain] = txt_value
Present(store, requested_domain, txt_value) ==
    [k \in DOMAIN store \cup {requested_domain} |->
        IF k = requested_domain THEN txt_value ELSE store[k]]

\* Variant: every record of the same DNS name is removed
CleanupFolding(store, requested_domain) ==
    [k \in {x \in DOMAIN store : ~LabelEq(DNSLabel(x), DNSLabel(requested_domain))} |->
        store[k]]

\* if requested_domain in validations: del validations[requested_domain]
Cleanup(store, requested_domain) ==
    IF requested_domain \in DOMAIN store
    THEN [k \in DOMAIN store \ {requested_domain} |-> store[k]]
    ELSE store

\* Lines 169-181: the command, once the request is authorized.  The 404
\* branch does not return, so the 200 status line follows it.
Dispatch(path, store, requested_domain, txt_value) ==
    IF path = "/present"
    THEN [resp  |-> SendResponse(200),
          store |-> Present(store, requested_domain, txt_value)]
    ELSE IF path = "/cleanup"
    THEN [resp  |-> SendResponse(200),
          store |-> Cleanup(store, requested_domain)]
    ELSE [resp  |-> [sent |-> <<[code |-> 404, explain |-> "Nothing matches the given URI"],
                               [code |-> 200, explain |-> ""]>>,
                     raised |-> FALSE],
          store |-> store]

\* Lines 146-167: the body and the allow-list, for an authenticated request
Authorize(req, store, key_config) ==
    LET body == req.body IN
    IF body.json = "invalid"
    THEN [resp |-> SendError(400, "Could not decode JSON"), store |-> store]
    ELSE IF body.json # "object"
    THEN [resp |-> Raised, store |-> store]      \* TypeError from request_json["fqdn"]
    ELSE IF "fqdn" \notin DOMAIN body.fields \/ "value" \notin DOMAIN body.fields
    THEN [resp  |-> SendError(400, "Missing at least one of the fqdn/value keyvals"),
          store |-> store]
    ELSE LET requested_domain == body.fields.fqdn
             txt_value        == body.fields.value
             domains          == AllowedDomains(key_config)
         IN  IF domains # <<>> /\ requested_domain.t # "str"
             THEN [resp |-> Raised, store |-> store]   \* TypeError from fnmatch
             ELSE IF ~AnyMatch(requested_domain.v, domains)
             THEN [resp  |-> SendError(401, "This API key is not allowed to request that domain"),
                   store |-> store]
             ELSE Dispatch(req.path, store, requested_domain.v, txt_value)

\* Lines 124-144: the credentials carried by the second token
Authenticate(req, store, token) ==
    LET decoded == b64decode(token) IN
    IF decoded.error
    THEN [resp |-> Raised, store |-> store]      \* binascii.Error, UnicodeDecodeError
    ELSE LET basic_auth_tokens == Split(decoded.text, ":") IN
         IF Len(basic_auth_tokens) # 2
         THEN [resp |-> SendError(401, "Invalid basic auth credentials"), store |-> store]
         ELSE LET api_key_name == basic_auth_tokens[1]
                  api_key      == basic_auth_tokens[2]
              IN  IF api_key_name \notin DOMAIN config.api_keys
                  THEN [resp  |-> SendError(401, "Invalid basic auth credentials"),
                        store |-> store]
                  ELSE LET key_config == config.api_keys[api_key_name] IN
                       IF \/ "key" \notin DOMAIN key_config
                          \/ ~secure_pass_compare(api_key, key_config.key)
                       THEN [resp  |-> SendError(401, "Invalid basic auth credentials"),
                             store |-> store]
                       ELSE Authorize(req, store, key_config)

\* do_POST: the response written and the store left behind
do_POST(req, store) ==
    IF ~resolverAttached
    THEN [resp |-> SendError(500, "DNS validator not attached."), store |-> store]
    ELSE IF ~req.auth.present
    THEN [resp |-> SendError(401, "No Authorization header passed"), store |-> store]
    ELSE LET auth_header_tokens == Split(req.auth.text, " ") IN
         IF Len(auth_header_tokens) # 2
         THEN [resp |-> SendError(401, "Invalid Authorization header"), store |-> store]
         ELSE IF auth_header_tokens[1] # <<"Basic">>
         THEN [resp |-> Raised, store |-> store]  \* send_error(401, expain=...): TypeError
         ELSE Authenticate(req, store, auth_header_tokens[2])

(***************************************************************************)
(* The requests and queries the clients send                                *)
(***************************************************************************)

\* The store holds at most MaxRecords records in the model
MaxRecords == 2

JStr(text) == [t |-> "str", v |-> text]
JNum       == [t |-> "num", v |-> <<>>]

Fqdns  == {T_fac, T_facDot, T_FacDot, T_ac, T_xac}
Values == {JStr(<<"abc123">>), JStr(<<"xyz789">>)}
Paths  == {"/present", "/cleanup", "/other"}

\* {"fqdn": f, "value": v}
Body(f, v) == [json |-> "object", fields |-> [fqdn |-> f, value |-> v]]

WellFormedBodies == {Body(JStr(f), v) : f \in Fqdns, v \in Values}

B_invalid == [json |-> "invalid", fields |-> <<>>]                       \* {
B_list    == [json |-> "list", fields |-> <<>>]                          \* []
B_noValue == [json |-> "object", fields |-> [fqdn |-> JStr(T_facDot)]]   \* {"fqdn": "f.a.c."}
B_numFqdn == Body(JNum, JStr(<<"abc123">>))                              \* {"fqdn": 5, "value": "abc123"}

MalformedBodies == {B_invalid, B_list, B_noValue, B_numFqdn}

Header(text) == [present |-> TRUE, text |-> text]
Basic(token) == Header(<<"Basic", " ", token>>)

H_alice == Basic("YWxpY2U6c0E=")
H_dave  == Basic("ZGF2ZTpzRA==")
H_bob   == Basic("Ym9iOnNC")
H_carol == Basic("Y2Fyb2w6c0M=")

H_absent    == [present |-> FALSE, text |-> <<>>]
H_oneToken  == Header(<<"Basic">>)
H_three     == Header(<<"Basic", " ", "YWxpY2U6c0E=", " ", "x">>)
H_bearer    == Header(<<"Bearer", " ", "abc">>)
H_badPad    == Basic("abc")
H_notUtf8   == Basic("/w==")
H_noColon   == Basic("YWxpY2VzQQ==")
H_twoColons == Basic("YWxpY2U6c0E6eA==")
H_unknown   == Basic("bWFsbG9yeTpzQQ==")
H_wrongKey  == Basic("YWxpY2U6YmFk")

RejectedHeaders ==
    {H_absent, H_oneToken, H_three, H_bearer, H_badPad, H_notUtf8,
     H_noColon, H_twoColons, H_unknown, H_wrongKey}

Request(auth, body, path) == [auth |-> auth, body |-> body, path |-> path]

HttpRequests ==
    {Request(h, b, p) : h \in {H_alice, H_dave},
                        b \in WellFormedBodies \cup MalformedBodies, p \in Paths}
    \cup
    {Request(h, b, p) : h \in {H_bob, H_carol},
                        b \in {Body(JStr(T_facDot), JStr(<<"abc123">>)), B_numFqdn},
                        p \in Paths}
    \cup
    {Request(h, b, p) : h \in RejectedHeaders,
                        b \in {Body(JStr(T_facDot), JStr(<<"abc123">>)), B_invalid},
                        p \in {"/present", "/other"}}

\* Query names as they arrive on the wire: tuples of labels
Q_fac == <<<<"f">>, <<"a">>, <<"c">>>>
Q_Fac == <<<<"F">>, <<"a">>, <<"c">>>>
Q_ac  == <<<<"a">>, <<"c">>>>
Q_AC  == <<<<"A">>, <<"C">>>>
Q_xac == <<<<"x", "a">>, <<"c">>>>
Q_c   == <<<<"c">>>>

QNames == {Q_fac, Q_Fac, Q_ac, Q_AC, Q_xac, Q_c}
QTypes == {"TXT", "SOA", "NS", "A"}

DnsQueries == {[qname |-> n, qtype |-> t] : n \in QNames, t \in QTypes}

(***************************************************************************)
(* The dispatch loop (lines 184-202): one HTTP request, one UDP query, one  *)
(* TCP query, each handle_request returning after its timeout when nothing  *)
(* is pending.  last is what the most recent handle_request call did: the   *)
(* unit of work it handled, with the response and the store it started      *)
(* from, or nothing when the call timed out.  pending is the channel on     *)
(* which an observed request waits in the listener's queue, or "none";      *)
(* other requests arrive within the bounded wait of handle_request.         *)
(***************************************************************************)

Channels == {"http", "udp", "tcp"}

EmptyStore == [k \in {} |-> JNum]

\* Variant: the loop of the single-listener version, without the TCP listener
FollowingNoTcp(ch) == IF ch = "http" THEN "udp" ELSE "http"

\* The order of the handle_request calls in the loop body
Following(ch) ==
    CASE ch = "http" -> "udp"
      [] ch = "udp"  -> "tcp"
      [] ch = "tcp"  -> "http"

\* Variant: an exception of a handler leaves handle_request and ends the loop
ResumeUnlessRaised(ch, raised) == IF raised THEN "stopped" ELSE Following(ch)

\* handle_request returns also when the handler raised (the socket server
\* catches the exception in handle_error), and the loop goes on
Resume(ch, raised) == Following(ch)

\* The observed request is taken from the queue of the channel served
Served(ch) == IF pending = ch THEN "none" ELSE pending

Init ==
    /\ validations = EmptyStore
    /\ last = [op |-> "none"]
    /\ pc = "http"
    /\ pending = "none"

\* http_server.handle_request() with a request to handle
HttpStep(requests) ==
    /\ pc = "http"
    /\ \E req \in requests :
         LET r == do_POST(req, validations) IN
         /\ Cardinality(DOMAIN r.store) <= MaxRecords
         /\ validations' = r.store
         /\ last' = [op |-> "http", req |-> req, resp |-> r.resp, pre |-> validations]
         /\ pc' = Resume("http", r.resp.raised)
    /\ pending' = Served("http")

\* handle_request() of a listener without a request within the timeout
Timeout(ch) ==
    /\ pc = ch
    /\ pending # ch
    /\ pc' = Following(ch)
    /\ last' = [op |-> "none"]
    /\ UNCHANGED <<validations, pending>>

\* dns_server.server.handle_request() with a query to handle
HandleDns(ch, queries) ==
    /\ pc = ch
    /\ \E query \in queries :
         LET reply == resolve(query, validations) IN
         /\ last' = [op |-> "dns", req |-> query, resp |-> reply, pre |-> validations]
         /\ pc' = Resume(ch, ~reply.sent)
    /\ pending' = Served(ch)
    /\ UNCHANGED validations

HandleHttp == HttpStep(HttpRequests)

HttpTimeout == Timeout("http")

\* Variant: the TCP listener served from a thread of its own
HandleTcpThreaded ==
    /\ \E query \in DnsQueries :
         last' = [op |-> "dns", req |-> query, resp |-> resolve(query, validations),
                  pre |-> validations]
    /\ UNCHANGED <<validations, pc, pending>>

HandleUdp == HandleDns("udp", DnsQueries)

UdpTimeout == Timeout("udp")

HandleTcp == HandleDns("tcp", DnsQueries)

TcpTimeout == Timeout("tcp")

Next ==
    \/ HandleHttp
    \/ HttpTimeout
    \/ HandleUdp
    \/ UdpTimeout
    \/ HandleTcp
    \/ TcpTimeout

Spec == Init /\ [][Next]_vars

(***************************************************************************)
(* The loop with an observed request: a request arrives on a channel and    *)
(* waits until the loop reaches the handle_request call of its listener.    *)
(* Every handle_request call returns (a unit of work terminates, a wait is  *)
(* bounded by the timeout), so the loop keeps taking steps.                 *)
(***************************************************************************)

LiveRequests ==
    {Request(H_alice, Body(JStr(T_facDot), JStr(<<"abc123">>)), "/present"),
     Request(H_alice, Body(JStr(T_fac), JStr(<<"xyz789">>)), "/present"),
     Request(H_alice, Body(JStr(T_facDot), JStr(<<"abc123">>)), "/cleanup"),
     Request(H_alice, Body(JStr(T_fac), JStr(<<"xyz789">>)), "/cleanup"),
     Request(H_wrongKey, B_invalid, "/present"),
     Request(H_bearer, B_invalid, "/other")}

LiveQueries ==
    {[qname |-> Q_fac, qtype |-> "TXT"], [qname |-> Q_ac, qtype |-> "SOA"]}

Arrive(ch) ==
    /\ pending = "none"
    /\ pending' = ch
    /\ UNCHANGED <<validations, last, pc>>

LiveHandleHttp == HttpStep(LiveRequests)

LiveHandleUdp == HandleDns("udp", LiveQueries)

LiveHandleTcp == HandleDns("tcp", LiveQueries)

LoopStep ==
    \/ LiveHandleHttp
    \/ HttpTimeout
    \/ LiveHandleUdp
    \/ UdpTimeout
    \/ LiveHandleTcp
    \/ TcpTimeout

LiveNext ==
    \/ LoopStep
    \/ \E ch \in Channels : Arrive(ch)

LiveSpec == Init /\ [][LiveNext]_vars /\ WF_vars(LoopStep)

(***************************************************************************)
(* Vocabulary of the properties                                             *)
(***************************************************************************)

IsHttp == last.op = "http"
IsDns  == last.op = "dns"

\* The status codes written to the client, in order
Codes(resp) == [i \in 1..Len(resp.sent) |-> resp.sent[i].code]

\* Exactly one response, with this status
Answered(resp, code) == ~resp.raised /\ Codes(resp) = <<code>>

\* The identifier whose correct Basic credentials the header carries
Caller(auth) ==
    CASE auth = H_alice -> <<"alice">>
      [] auth = H_dave  -> <<"dave">>
      [] auth = H_bob   -> <<"bob">>
      [] auth = H_carol -> <<"carol">>

Authenticated(req) == req.auth \in {H_alice, H_dave, H_bob, H_carol}

\* The fqdn of the body matches a pattern of the caller's allow-list
Permitted(req) ==
    LET entry == api_keys[Caller(req.auth)] IN
    /\ "domains" \in DOMAIN entry
    /\ \E i \in 1..Len(entry.domains) : fnmatch(req.body.fields.fqdn.v, entry.domains[i])

\* Every record other than the one of f is the same in both stores
SameExcept(s1, s2, f) ==
    \A k \in (DOMAIN s1 \cup DOMAIN s2) \ {f} :
        k \in DOMAIN s1 /\ k \in DOMAIN s2 /\ s1[k] = s2[k]

\* q is the zone domain or a name under it, label by label
InZone(q) ==
    \E n \in 0..Len(q) : LabelEq(SubSeq(q, n + 1, Len(q)), DNSLabel(config.domain))

AtApex(q) == LabelEq(q, DNSLabel(config.domain))

\* The last unit of work: a present or cleanup of f answered 200 alone
Succeeded(path, f) ==
    /\ IsHttp
    /\ last.req.path = path
    /\ last.req.body \in WellFormedBodies
    /\ last.req.body.fields.fqdn.v = f
    /\ Answered(last.resp, 200)

\* The types of the records of a section
Types(section) == [i \in 1..Len(section) |-> section[i].rtype]

\* The names of the model that are challenge names: under the zone, not the apex
ChallengeNames == {f \in Fqdns : InZone(DNSLabel(f)) /\ ~AtApex(DNSLabel(f))}

\* The next unit of work is a TXT query for the name written f
AskedTxt(f) ==
    /\ last'.op = "dns"
    /\ last'.req.qtype = "TXT"
    /\ last'.req.qname = DNSLabel(f)

\* The reply is NOERROR with one TXT answer carrying value v, TTL 1
TxtAnswer(reply, v) ==
    /\ reply.sent
    /\ reply.rcode = "NOERROR"
    /\ Len(reply.answer) = 1
    /\ reply.answer[1].rtype = "TXT"
    /\ reply.answer[1].ttl = 1
    /\ reply.answer[1].rdata.txt = v

(***************************************************************************)
(* Properties                                                               *)
(***************************************************************************)

\* C1: round trip.  For every challenge name f inside the zone that the
\* caller's allow-list matches and every value v: a TXT query for f that
\* follows a successful present(f, v) is answered NOERROR with a TXT record
\* equal to v, TTL 1; a TXT query for f that follows a successful cleanup(f)
\* is answered NXDOMAIN.
C1_RoundTrip ==
    [][\A f \in ChallengeNames :
          /\ (Succeeded("/present", f) /\ AskedTxt(f))
                => TxtAnswer(last'.resp, last.req.body.fields.value)
          /\ (Succeeded("/cleanup", f) /\ AskedTxt(f))
                => (last'.resp.sent /\ last'.resp.rcode = "NXDOMAIN")
      ]_vars

\* C2: authorization gating.  A correctly authenticated /present or /cleanup
\* request with a well-formed body is answered 200 when its fqdn matches a
\* pattern of the credential's allow-list, and 401 with the store unchanged
\* when it matches none (always so under an empty or missing allow-list);
\* and no request changes the record of a name that its credential's
\* allow-list does not match.
C2_AuthorizationGating ==
    IsHttp =>
        /\ ( /\ Authenticated(last.req)
             /\ last.req.body \in WellFormedBodies
             /\ last.req.path \in {"/present", "/cleanup"} )
           => IF Permitted(last.req)
              THEN Answered(last.resp, 200)
              ELSE Answered(last.resp, 401) /\ validations = last.pre
        /\ \A k \in DOMAIN validations \cup DOMAIN last.pre :
              ( \/ k \notin DOMAIN validations
                \/ k \notin DOMAIN last.pre
                \/ validations[k] # last.pre[k] )
              => /\ Authenticated(last.req)
                 /\ last.req.body \in WellFormedBodies
                 /\ last.req.body.fields.fqdn.v = k
                 /\ Permitted(last.req)

\* C2 witness: alice, whose allow-list covers only names under the zone, was
\* refused a name outside it while the store held a record
C2_Witness ==
    /\ IsHttp
    /\ last.req.auth = H_alice
    /\ last.req.body \in WellFormedBodies
    /\ last.req.body.fields.fqdn.v = T_xac
    /\ last.req.path = "/present"
    /\ Answered(last.resp, 401)
    /\ validations # EmptyStore

\* C3: zone boundary.  A query of any type for a name that is neither the
\* zone domain nor under it is answered NOTZONE with no record in any
\* section, whatever the store holds.
C3_ZoneBoundary ==
    (IsDns /\ ~InZone(last.req.qname))
        => last.resp = [sent |-> TRUE, rcode |-> "NOTZONE", answer |-> <<>>, auth |-> <<>>]

\* C3 witness: a query for a name outside the zone while the store holds a
\* record keyed by exactly that name
C3_Witness ==
    /\ IsDns
    /\ last.req.qname = Q_xac
    /\ T_xac \in DOMAIN validations
    /\ last.resp.rcode = "NOTZONE"

\* C4: apex behaviour.  A query for the zone apex is answered NOERROR with
\* sections fixed by the query type alone: SOA gives an SOA answer and an NS
\* authority record, NS an NS answer and an SOA authority record, any other
\* type an empty answer and an NS authority record.
C4_ApexBehaviour ==
    (IsDns /\ AtApex(last.req.qname)) =>
        /\ last.resp.sent
        /\ last.resp.rcode = "NOERROR"
        /\ Types(last.resp.answer) =
              (IF last.req.qtype = "SOA" THEN <<"SOA">>
               ELSE IF last.req.qtype = "NS" THEN <<"NS">> ELSE <<>>)
        /\ Types(last.resp.auth) =
              (IF last.req.qtype = "NS" THEN <<"SOA">> ELSE <<"NS">>)
        /\ \A i \in 1..Len(last.resp.answer) :
              last.resp.answer[i] \in {SoaRR, NsRR}
        /\ \A i \in 1..Len(last.resp.auth) :
              last.resp.auth[i] \in {SoaRR, NsRR}

\* C4 witness: an SOA query for the apex while the store holds a record
\* keyed by the apex name
C4_Witness ==
    /\ IsDns
    /\ last.req.qname = Q_ac
    /\ last.req.qtype = "SOA"
    /\ T_ac \in DOMAIN validations
    /\ Types(last.resp.answer) = <<"SOA">>

\* C5: no partial mutation.  The store changes only by a /present or
\* /cleanup request answered 200, which changes the record of its own fqdn
\* alone; a request answered 500, 401, 400 or 404, a request whose handler
\* raised, and every DNS query leave the whole store unchanged.
C5_NoPartialMutation ==
    /\ IsDns => validations = last.pre
    /\ IsHttp =>
          /\ validations # last.pre
               => /\ Answered(last.resp, 200)
                  /\ last.req.path \in {"/present", "/cleanup"}
                  /\ last.req.body.json = "object"
                  /\ "fqdn" \in DOMAIN last.req.body.fields
                  /\ SameExcept(last.pre, validations, last.req.body.fields.fqdn.v)
          /\ ( \/ last.resp.raised
               \/ \E i \in 1..Len(last.resp.sent) :
                     last.resp.sent[i].code \in {500, 401, 400, 404} )
               => validations = last.pre

\* C5 witness: a present answered 200 changed one record of a store that
\* holds another record of the same DNS name
C5_Witness ==
    /\ Succeeded("/present", T_facDot)
    /\ validations # last.pre
    /\ T_FacDot \in DOMAIN validations

\* C6: present overwrites and is idempotent.  After a successful
\* present(f, v) of a name that already had a record, the store holds
\* exactly one record for f, with value v, and a TXT query for f that
\* follows returns v; a present(f, v) of a name that already has value v
\* leaves the store as it was.
C6_PresentOverwrites ==
    [][\A f \in ChallengeNames :
          (Succeeded("/present", f) /\ f \in DOMAIN last.pre) =>
              /\ f \in DOMAIN validations
              /\ validations[f] = last.req.body.fields.value
              /\ SameExcept(last.pre, validations, f)
              /\ (last.pre[f] = last.req.body.fields.value => validations = last.pre)
              /\ AskedTxt(f) => TxtAnswer(last'.resp, last.req.body.fields.value)
      ]_vars

\* C7: cleanup is a no-op on absence.  An authenticated and authorized
\* cleanup(f) of a name without a record is answered 200 and leaves the
\* store exactly as it was.
C7_CleanupAbsent ==
    ( /\ IsHttp
      /\ last.req.path = "/cleanup"
      /\ Authenticated(last.req)
      /\ last.req.body \in WellFormedBodies
      /\ Permitted(last.req)
      /\ last.req.body.fields.fqdn.v \notin DOMAIN last.pre )
    => (Answered(last.resp, 200) /\ validations = last.pre)

\* C7 witness: a cleanup answered 200 for a name without a record, while
\* the store holds records of other keys
C7_Witness ==
    /\ Succeeded("/cleanup", T_facDot)
    /\ T_facDot \notin DOMAIN last.pre
    /\ T_FacDot \in DOMAIN last.pre
    /\ validations = last.pre

\* C8: unknown path.  An authenticated, authorized request with a
\* well-formed body to a path other than /present and /cleanup receives a
\* 404 response and no 200 response, and the store is unchanged; a 200
\* response is sent only for /present and /cleanup.
C8_UnknownPath ==
    IsHttp =>
        /\ ( /\ Authenticated(last.req)
             /\ last.req.body \in WellFormedBodies
             /\ Permitted(last.req)
             /\ last.req.path \notin {"/present", "/cleanup"} )
           => (Answered(last.resp, 404) /\ validations = last.pre)
        /\ (\E i \in 1..Len(last.resp.sent) : last.resp.sent[i].code = 200)
           => last.req.path \in {"/present", "/cleanup"}

\* C9: scheme check.  A request whose Authorization header is not exactly
\* two space-separated tokens, or whose first token is not Basic, is
\* answered 401 and goes no further.
C9_SchemeCheck ==
    ( /\ IsHttp
      /\ last.req.auth.present
      /\ LET tokens == Split(last.req.auth.text, " ")
         IN  Len(tokens) # 2 \/ tokens[1] # <<"Basic">> )
    => (Answered(last.resp, 401) /\ validations = last.pre)

\* C10: credential decoding.  A request with scheme Basic whose second
\* token is not valid base64 or does not decode to text, or whose decoded
\* text does not split on the colon into exactly an identifier and a
\* secret, is answered 401.
C10_CredentialDecoding ==
    ( /\ IsHttp
      /\ last.req.auth.present
      /\ LET tokens == Split(last.req.auth.text, " ")
         IN  /\ Len(tokens) = 2
             /\ tokens[1] = <<"Basic">>
             /\ \/ b64decode(tokens[2]).error
                \/ Len(Split(b64decode(tokens[2]).text, ":")) # 2 )
    => Answered(last.resp, 401)

\* The name q has a record in the store, names compared as DNS names
HasRecord(q, store) == \E k \in DOMAIN store : LabelEq(q, DNSLabel(k))

\* The status of the first check of the pipeline that the request fails,
\* 200 when it fails none (the resolver is attached from startup on)
FirstFailure(req) ==
    IF ~req.auth.present THEN 401
    ELSE LET tokens == Split(req.auth.text, " ") IN
    IF Len(tokens) # 2 \/ tokens[1] # <<"Basic">> THEN 401
    ELSE LET decoded == b64decode(tokens[2])
             fields  == Split(decoded.text, ":") IN
    IF decoded.error \/ Len(fields) # 2 THEN 401
    ELSE IF fields[1] \notin DOMAIN api_keys THEN 401
    ELSE IF "key" \notin DOMAIN api_keys[fields[1]] \/ api_keys[fields[1]].key # fields[2]
    THEN 401
    ELSE IF req.body \notin WellFormedBodies THEN 400
    ELSE IF ~Permitted(req) THEN 401
    ELSE IF req.path \notin {"/present", "/cleanup"} THEN 404
    ELSE 200

\* C11: body decoding.  A correctly authenticated request whose body is not
\* valid JSON, or is JSON without both fields fqdn and value as strings
\* (a missing field, a list, a non-string field), is answered 400 and
\* leaves the store unchanged.
C11_BodyDecoding ==
    (IsHttp /\ Authenticated(last.req) /\ last.req.body \in MalformedBodies)
        => (Answered(last.resp, 400) /\ validations = last.pre)

\* C12: identifier non-disclosure.  A request with an identifier absent
\* from api_keys and the same request with an existing identifier and a
\* wrong secret get the same response, 401 with the same explanation, and
\* neither changes the store.
C12_IdentifierNonDisclosure ==
    /\ (IsHttp /\ last.req.auth \in {H_unknown, H_wrongKey})
          => /\ last.resp = [sent |-> <<[code |-> 401,
                                         explain |-> "Invalid basic auth credentials"]>>,
                             raised |-> FALSE]
             /\ validations = last.pre
    /\ \A b \in WellFormedBodies \cup MalformedBodies, p \in Paths :
          LET unknown == do_POST(Request(H_unknown, b, p), validations)
              wrong   == do_POST(Request(H_wrongKey, b, p), validations)
          IN  /\ unknown.resp = wrong.resp
              /\ unknown.store = validations
              /\ wrong.store = validations

\* C12 witness: an existing identifier with a wrong secret was refused for
\* a name whose record the store holds
C12_Witness ==
    /\ IsHttp
    /\ last.req.auth = H_wrongKey
    /\ last.req.body \in WellFormedBodies
    /\ last.req.body.fields.fqdn.v \in DOMAIN validations
    /\ Answered(last.resp, 401)

\* C13: challenge-name branch.  A query for a name strictly under the zone
\* is answered with an SOA record in the authority section; the response
\* code is NXDOMAIN exactly when the name has no record in the store and
\* NOERROR otherwise; with a record and a type other than TXT the answer
\* section is empty.
C13_ChallengeBranch ==
    (IsDns /\ InZone(last.req.qname) /\ ~AtApex(last.req.qname)) =>
        /\ last.resp.sent
        /\ Types(last.resp.auth) = <<"SOA">>
        /\ last.resp.rcode =
              (IF HasRecord(last.req.qname, last.pre) THEN "NOERROR" ELSE "NXDOMAIN")
        /\ (HasRecord(last.req.qname, last.pre) /\ last.req.qtype # "TXT")
              => last.resp.answer = <<>>

\* C14: case-insensitive lookup.  While the store holds a record under key
\* k, a TXT query for a name that equals k up to letter case is answered
\* NOERROR with a TXT record carrying the value stored under k.
C14_CaseInsensitiveLookup ==
    (IsDns /\ last.req.qtype = "TXT") =>
        \A k \in DOMAIN last.pre :
            ( /\ InZone(last.req.qname)
              /\ ~AtApex(last.req.qname)
              /\ Lower(LabelStr(last.req.qname)) = Lower(k) )
            => TxtAnswer(last.resp, last.pre[k])

\* C15: store key invariant.  The store holds at most one record per DNS
\* name, names compared after normalization (letter case, trailing dot).
C15_OneRecordPerName ==
    \A k1, k2 \in DOMAIN validations :
        LabelEq(DNSLabel(k1), DNSLabel(k2)) => k1 = k2

\* C16: resolution is total.  Every query gets exactly one response, with
\* response code NOTZONE, NOERROR or NXDOMAIN.
C16_ResolutionTotal ==
    IsDns => (last.resp.sent /\ last.resp.rcode \in {"NOTZONE", "NOERROR", "NXDOMAIN"})

\* C17: pipeline order.  The response to a request is the status of the
\* first check it fails, in the order header present (401), scheme (401),
\* credential decoding (401), identifier (401), secret (401), body (400),
\* allow-list (401), path (404), and 200 when it fails none; a request that
\* fails a check leaves the store unchanged.
C17_PipelineOrder ==
    IsHttp =>
        /\ Answered(last.resp, FirstFailure(last.req))
        /\ FirstFailure(last.req) # 200 => validations = last.pre

\* The last unit of work failed: a request rejected with an error status
\* or aborted by an exception, a query without a reply
Failed ==
    \/ /\ IsHttp
       /\ \/ last.resp.raised
          \/ \E i \in 1..Len(last.resp.sent) :
                last.resp.sent[i].code \in {500, 401, 400, 404}
    \/ IsDns /\ ~last.resp.sent

C19_NoStarvation ==
    /\ (pending = "http") ~> (pending = "none")
    /\ (pending = "udp") ~> (pending = "none")
    /\ (pending = "tcp") ~> (pending = "none")

\* C19 witness: a request waits on the TCP channel while the loop has just
\* handled an HTTP request and a UDP query is next
C19_Witness ==
    /\ pending = "tcp"
    /\ IsHttp
    /\ pc = "udp"

\* C20: no cross-request error state.  After a request or query that was
\* rejected or aborted, the store is as it was before it and the loop is
\* at its next handle_request call and can take it; resolve and do_POST
\* read nothing but the store, so what follows is handled as it would
\* have been without the failed unit of work.
C20_NoErrorState ==
    Failed =>
        /\ validations = last.pre
        /\ IsHttp => pc = "udp"
        /\ IsDns => pc \in {"tcp", "http"}
        /\ ENABLED Next

\* C20 witness: the handler of a request raised while the store held a
\* record, and the loop is at the UDP listener
C20_Witness ==
    /\ IsHttp
    /\ last.resp.raised
    /\ validations # EmptyStore
    /\ pc = "udp"

====
